---- MODULE Spec2Model ----
(***************************************************************************)
(* Metrics collection and bounded time-series store of dashboard/app.py:   *)
(* the two self-rescheduling collectors (collect_system_metrics and        *)
(* collect_container_metrics), the Redis lists they push to and trim, and  *)
(* the read side (get_metrics, get_container_metrics).                     *)
(*                                                                         *)
(* Granularity.  One action per Redis command a collector issues: a        *)
(* reader's lrange can be served between any two of them.  The local work  *)
(* that precedes a command (a psutil reading, a stats fetch and the        *)
(* percentage arithmetic) touches no shared state and is folded into the   *)
(* action of the command that follows it.                                  *)
(*                                                                         *)
(* Time.  The clock counts units of 1/UnitsPerSecond s; a timestamp is the *)
(* floor of the clock in seconds.  A collector's tick starts when its      *)
(* timer fires: TIMER_INTERVAL seconds after the tick that armed it began, *)
(* plus a lateness of 0..MaxJitter units (thread start-up and the time the *)
(* arming tick took).  time.time() is taken to be non-decreasing.  The two *)
(* collectors share no variable, so each keeps its own reading of the      *)
(* clock.                                                                  *)
(*                                                                         *)
(* Environment.  What the outside world may answer (timer lateness, psutil *)
(* readings and failures, container listings, stats snapshots) is a record *)
(* env handed to the actions.  HostSpec and ContainerSpec run one          *)
(* collector against every answer modelled for it; Spec runs both          *)
(* collectors in parallel against a narrow environment.                    *)
(*                                                                         *)
(* Numbers.  A percentage written with the format :.2f is an integer       *)
(* number of hundredths (50000.00 is 5000000).  Host readings are written  *)
(* with str() and read back with float()/int(), which round-trip, so they  *)
(* are kept as the numbers read.                                           *)
(***************************************************************************)
EXTENDS Integers, Sequences, FiniteSets, TLC

\* ---------------------------------------------------------------- bounds
\* SYSTEM_METRICS_HISTORY_LENGTH is 1440 and CONTAINER_METRICS_HISTORY_LENGTH
\* is 60 in the source (app.py:31-32); the model scales both down so that
\* the lists fill up and evict within the tick bound.
SYSTEM_METRICS_HISTORY_LENGTH == 2

CONTAINER_METRICS_HISTORY_LENGTH == 2

\* Ticks each collector may start.
MaxTicks == 3

\* Clock resolution: time units per second.
UnitsPerSecond == 2

\* Lateness of a timer, in time units.
MaxJitter == 1

\* ------------------------------------------------------ program constants
\* threading.Timer(10, ...) in both finally clauses and the no-client path.
TIMER_INTERVAL == 10

\* threading.Timer(1, ...) at module level.
STARTUP_DELAY == 1

Collectors == {"host", "container"}

\* Container ids the runtime may list.
Containers == {"c1", "c2"}

HostMetricOrder == <<"cpu_history", "memory_history", "disk_history", "network_history">>

ContainerMetrics == {"cpu_history", "memory_history"}

\* A series key is <<owner, list name>>: 'cpu_history' is <<"host", "cpu_history">>,
\* f'container:{id}:cpu_history' is <<id, "cpu_history">>.
HostKeys == {<<"host", HostMetricOrder[i]>> : i \in 1..Len(HostMetricOrder)}

ContainerKeys == Containers \X ContainerMetrics

Keys == HostKeys \cup ContainerKeys

Capacity(key) ==
    IF key[1] = "host" THEN SYSTEM_METRICS_HISTORY_LENGTH
    ELSE CONTAINER_METRICS_HISTORY_LENGTH

\* ------------------------------------------------------------ Redis lists
Min(a, b) == IF a < b THEN a ELSE b

Max(a, b) == IF a > b THEN a ELSE b

\* Redis resolves a negative index from the tail and clamps to the list.
ListIndex(list, i) == IF i < 0 THEN Max(Len(list) + i, 0) ELSE i

\* LPUSH key value: insert at the head.
LPUSH(list, entry) == <<entry>> \o list

\* LRANGE / LTRIM keep the 0-based inclusive range start..stop.
ListSlice(list, start, stop) ==
    SubSeq(list, ListIndex(list, start) + 1, Min(ListIndex(list, stop), Len(list) - 1) + 1)

LTRIM(list, start, stop) == ListSlice(list, start, stop)

LRANGE(list, start, stop) == ListSlice(list, start, stop)

\* A faulty stop index: ltrim(key, 0, <LENGTH>) keeps one entry too many.
TrimStopOffByOne(cap) == cap

\* The stop index the collectors pass to ltrim: <LENGTH> - 1.
TrimStop(cap) == cap - 1

\* A faulty read loop: iterating the lrange result without reversed(...).
NotReversed(s) == s

\* reversed(...)
Reversed(s) == [i \in 1..Len(s) |-> s[Len(s) + 1 - i]]

\* ------------------------------------------------------------------ state
VARIABLES
    store,          \* Redis: series key -> list of entries, newest first
    pc,             \* collector -> "idle" | "noclient" | "push" | "trim" | "finally"
    armed,          \* collector -> number of started, unfired threading.Timers
    due,            \* collector -> earliest firing time of its timer (units)
    now,            \* collector -> time.time() when its current tick began (units)
    timestamp,      \* collector -> math.floor(time.time()) of the current tick
    ticks,          \* collector -> ticks started so far
    step,           \* host: index into HostMetricOrder; container: index into listing
    metric,         \* container: the list the next command addresses
    docker_client,  \* FALSE when docker.from_env() failed at import
    listing,        \* docker_client.containers.list() of the current tick
    stats,          \* container.stats(stream=False) of the current container
    failed,         \* collector -> what raised in the current tick, or "none"
    before,         \* history: store as it was when the current tick started
    expected,       \* history: key -> the last Capacity(key) entries appended, oldest first
    nappended       \* history: key -> number of completed appends

vars == <<store, pc, armed, due, now, timestamp, ticks, step, metric, docker_client,
          listing, stats, failed, before, expected, nappended>>

\* ------------------------------------------------------------ timer chain
\* math.floor(time.time())
Floor(t) == t \div UnitsPerSecond

\* threading.Timer(seconds, f).start() issued by collector c's current tick.
ArmTimer(c, seconds) ==
    /\ armed' = [armed EXCEPT ![c] = @ + 1]
    /\ due' = [due EXCEPT ![c] = now[c] + seconds * UnitsPerSecond]

\* The timer thread of collector c runs its function.  At most one tick of
\* a collector is modelled as running, so a timer fires only on an idle one.
FireTimer(c, env) ==
    /\ armed[c] >= 1
    /\ pc[c] = "idle"
    /\ ticks[c] < MaxTicks
    /\ \E late \in env.late : now' = [now EXCEPT ![c] = due[c] + late]
    /\ armed' = [armed EXCEPT ![c] = @ - 1]
    /\ ticks' = [ticks EXCEPT ![c] = @ + 1]
    /\ UNCHANGED due

\* ------------------------------------------------------------- histories
LastN(s, n) == IF Len(s) <= n THEN s ELSE SubSeq(s, Len(s) - n + 1, Len(s))

\* An entry is the ':'-separated fields of the pushed string.
RecordAppend(key, entry) ==
    /\ expected' = [expected EXCEPT ![key] = LastN(Append(@, entry), Capacity(key))]
    /\ nappended' = [nappended EXCEPT ![key] = @ + 1]

SnapshotOf(keys) == [k \in Keys |-> IF k \in keys THEN store[k] ELSE before[k]]

\* ---------------------------------------------------- collect_system_metrics
\* psutil readings: cpu_percent(interval=1), virtual_memory().percent,
\* disk_usage('/host').percent, net_io_counters().(bytes_sent, bytes_recv).
HostReadings(m, env) ==
    CASE m = "cpu_history" -> env.cpu
      [] m = "memory_history" -> {<<40>>}
      [] m = "disk_history" -> {<<60>>}
      [] m = "network_history" -> {<<1000, 2000>>}

\* timestamp = math.floor(time.time())
HostFire(env) ==
    /\ FireTimer("host", env)
    /\ timestamp' = [timestamp EXCEPT !["host"] = Floor(now'["host"])]
    /\ pc' = [pc EXCEPT !["host"] = "push"]
    /\ step' = [step EXCEPT !["host"] = 1]
    /\ failed' = [failed EXCEPT !["host"] = "none"]
    /\ before' = SnapshotOf(HostKeys)
    /\ UNCHANGED <<store, metric, docker_client, listing, stats, expected, nappended>>

\* One psutil reading and the lpush of f"{timestamp}:{reading}".
HostPush(env) ==
    /\ pc["host"] = "push"
    /\ \E reading \in HostReadings(HostMetricOrder[step["host"]], env) :
        LET key == <<"host", HostMetricOrder[step["host"]]>>
            entry == <<timestamp["host"]>> \o reading
        IN  /\ store' = [store EXCEPT ![key] = LPUSH(@, entry)]
            /\ RecordAppend(key, entry)
    /\ pc' = [pc EXCEPT !["host"] = "trim"]
    /\ UNCHANGED <<armed, due, now, timestamp, ticks, step, metric, docker_client,
                   listing, stats, failed, before>>

\* The psutil reading raises: control passes to the except clause.
HostSampleFails(env) ==
    /\ pc["host"] = "push"
    /\ step["host"] \in env.hostFail
    /\ failed' = [failed EXCEPT !["host"] = HostMetricOrder[step["host"]]]
    /\ pc' = [pc EXCEPT !["host"] = "finally"]
    /\ UNCHANGED <<store, armed, due, now, timestamp, ticks, step, metric, docker_client,
                   listing, stats, before, expected, nappended>>

\* ltrim(key, 0, SYSTEM_METRICS_HISTORY_LENGTH - 1), then the next metric.
HostTrim ==
    /\ pc["host"] = "trim"
    /\ LET key == <<"host", HostMetricOrder[step["host"]]>>
       IN  store' = [store EXCEPT ![key] = LTRIM(@, 0, TrimStop(SYSTEM_METRICS_HISTORY_LENGTH))]
    /\ IF step["host"] < Len(HostMetricOrder)
       THEN /\ step' = [step EXCEPT !["host"] = @ + 1]
            /\ pc' = [pc EXCEPT !["host"] = "push"]
       ELSE /\ pc' = [pc EXCEPT !["host"] = "finally"]
            /\ UNCHANGED step
    /\ UNCHANGED <<armed, due, now, timestamp, ticks, metric, docker_client,
                   listing, stats, failed, before, expected, nappended>>

\* finally: threading.Timer(10, collect_system_metrics).start()
HostFinally ==
    /\ pc["host"] = "finally"
    /\ ArmTimer("host", TIMER_INTERVAL)
    /\ pc' = [pc EXCEPT !["host"] = "idle"]
    /\ UNCHANGED <<store, now, timestamp, ticks, step, metric, docker_client,
                   listing, stats, failed, before, expected, nappended>>

HostNext(env) ==
    \/ HostFire(env)
    \/ HostPush(env)
    \/ HostSampleFails(env)
    \/ HostTrim
    \/ HostFinally

\* ----------------------------------------------- container.stats(stream=False)
\* A stats dict: the numbers it carries and the key paths it lacks.
\* Docker reports precpu_stats without system_cpu_usage when it holds no
\* previous sample of the container.
StatsPaths ==
    {"cpu_stats", "cpu_stats.cpu_usage.total_usage", "cpu_stats.system_cpu_usage",
     "precpu_stats", "precpu_stats.cpu_usage.total_usage", "precpu_stats.system_cpu_usage",
     "memory_stats", "memory_stats.usage", "memory_stats.limit"}

Has(s, path) == path \notin s.missing

NoStats ==
    [missing |-> StatsPaths, total_usage |-> 0, pre_total_usage |-> 0,
     system_cpu_usage |-> 0, pre_system_cpu_usage |-> 0, online_cpus |-> 0,
     usage |-> 0, limit |-> 0]

\* 'cpu_stats' in stats and 'precpu_stats' in stats
HasCpuPair(s) == Has(s, "cpu_stats") /\ Has(s, "precpu_stats")

\* The subscripts of lines 81-83 raise KeyError on a path the dict lacks.
RaisesKeyError(s) ==
    /\ HasCpuPair(s)
    /\ \/ ~Has(s, "cpu_stats.cpu_usage.total_usage")
       \/ ~Has(s, "precpu_stats.cpu_usage.total_usage")
       \/ ~Has(s, "cpu_stats.system_cpu_usage")
       \/ ~Has(s, "precpu_stats.system_cpu_usage")

cpu_delta(s) == s.total_usage - s.pre_total_usage

system_delta(s) == s.system_cpu_usage - s.pre_system_cpu_usage

\* number_cpus = stats['cpu_stats']['system_cpu_usage']
number_cpus(s) == s.system_cpu_usage

\* round(num / den) to the nearest integer, ties to even; den > 0.
RoundHalfEven(num, den) ==
    LET q == num \div den
        r == num % den
    IN  IF 2 * r < den THEN q
        ELSE IF 2 * r > den THEN q + 1
        ELSE IF q % 2 = 0 THEN q ELSE q + 1

\* f"{x:.2f}" of x = num / den, as a number of hundredths.
Format2f(num, den) == RoundHalfEven(num * 100, den)

\* f"{cpu_percent:.2f}" of lines 79-85.
cpu_percent(s) ==
    IF HasCpuPair(s) /\ number_cpus(s) > 0 /\ system_delta(s) > 0
    THEN Format2f(cpu_delta(s) * number_cpus(s) * 100, system_delta(s))
    ELSE 0

\* stats['memory_stats'].get('usage', 0) and .get('limit', 0)
mem_usage(s) == IF Has(s, "memory_stats.usage") THEN s.usage ELSE 0

mem_limit(s) == IF Has(s, "memory_stats.limit") THEN s.limit ELSE 0

\* f"{mem_percent:.2f}" of lines 88-95.
mem_percent(s) ==
    IF Has(s, "memory_stats") /\ mem_limit(s) > 0
    THEN Format2f(mem_usage(s) * 100, mem_limit(s))
    ELSE 0

\* ------------------------------------------------- collect_container_metrics
\* A faulty key: one fixed list name for every container.
ContainerKeyWithoutId(id, m) == <<"c1", m>>

\* f'container:{container.id}:cpu_history' and ...:memory_history
ContainerKey(id, m) == <<id, m>>

\* The loop variable of: for container in docker_client.containers.list()
CurrentContainer == listing[step["container"]]

\* The timer thread enters collect_container_metrics: the client check, then
\* the timestamp and docker_client.containers.list(), which succeeds.
ContainerFire(env) ==
    /\ FireTimer("container", env)
    /\ failed' = [failed EXCEPT !["container"] = "none"]
    /\ before' = SnapshotOf(ContainerKeys)
    /\ step' = [step EXCEPT !["container"] = 1]
    /\ metric' = "cpu_history"
    /\ stats' = NoStats
    /\ IF ~docker_client
       THEN /\ pc' = [pc EXCEPT !["container"] = "noclient"]
            /\ UNCHANGED <<timestamp, listing>>
       ELSE /\ timestamp' = [timestamp EXCEPT !["container"] = Floor(now'["container"])]
            /\ \E l \in env.listings :
                /\ listing' = l
                /\ pc' = [pc EXCEPT !["container"] = IF l = <<>> THEN "finally" ELSE "push"]
    /\ UNCHANGED <<store, docker_client, expected, nappended>>

\* docker_client.containers.list() raises.
ContainerListFails(env) ==
    /\ docker_client
    /\ FireTimer("container", env)
    /\ timestamp' = [timestamp EXCEPT !["container"] = Floor(now'["container"])]
    /\ failed' = [failed EXCEPT !["container"] = "list"]
    /\ before' = SnapshotOf(ContainerKeys)
    /\ listing' = <<>>
    /\ step' = [step EXCEPT !["container"] = 1]
    /\ metric' = "cpu_history"
    /\ stats' = NoStats
    /\ pc' = [pc EXCEPT !["container"] = "finally"]
    /\ UNCHANGED <<store, docker_client, expected, nappended>>

\* A faulty early return: "if not docker_client: return" starts no timer.
ContainerNoClientNoTimer ==
    /\ pc["container"] = "noclient"
    /\ pc' = [pc EXCEPT !["container"] = "idle"]
    /\ UNCHANGED <<store, armed, due, now, timestamp, ticks, step, metric, docker_client,
                   listing, stats, failed, before, expected, nappended>>

\* A faulty early return placed inside the try block: the return starts a
\* timer and the finally clause starts another.
ContainerNoClientTwoTimers ==
    /\ pc["container"] = "noclient"
    /\ armed' = [armed EXCEPT !["container"] = @ + 2]
    /\ due' = [due EXCEPT !["container"] = now["container"] + TIMER_INTERVAL * UnitsPerSecond]
    /\ pc' = [pc EXCEPT !["container"] = "idle"]
    /\ UNCHANGED <<store, now, timestamp, ticks, step, metric, docker_client,
                   listing, stats, failed, before, expected, nappended>>

\* if not docker_client: threading.Timer(10, ...).start(); return
ContainerNoClient ==
    /\ pc["container"] = "noclient"
    /\ ArmTimer("container", TIMER_INTERVAL)
    /\ pc' = [pc EXCEPT !["container"] = "idle"]
    /\ UNCHANGED <<store, now, timestamp, ticks, step, metric, docker_client,
                   listing, stats, failed, before, expected, nappended>>

\* container.stats(stream=False) raises for the container being visited.
ContainerStatsFails ==
    /\ pc["container"] = "push"
    /\ metric = "cpu_history"
    /\ failed' = [failed EXCEPT !["container"] = CurrentContainer]
    /\ stats' = NoStats
    /\ pc' = [pc EXCEPT !["container"] = "finally"]
    /\ UNCHANGED <<store, armed, due, now, timestamp, ticks, step, metric, docker_client,
                   listing, before, expected, nappended>>

\* container.stats(stream=False) returns; the percentages are computed
\* (lines 79-95) and the cpu entry is pushed (line 97), unless a subscript
\* raises KeyError.
ContainerStatsPush(env) ==
    /\ pc["container"] = "push"
    /\ metric = "cpu_history"
    /\ \E s \in env.stats :
        /\ stats' = s
        /\ IF RaisesKeyError(s)
           THEN /\ failed' = [failed EXCEPT !["container"] = CurrentContainer]
                /\ pc' = [pc EXCEPT !["container"] = "finally"]
                /\ UNCHANGED <<store, expected, nappended>>
           ELSE LET key == ContainerKey(CurrentContainer, "cpu_history")
                    entry == <<timestamp["container"], cpu_percent(s)>>
                IN  /\ store' = [store EXCEPT ![key] = LPUSH(@, entry)]
                    /\ RecordAppend(key, entry)
                    /\ pc' = [pc EXCEPT !["container"] = "trim"]
                    /\ UNCHANGED failed
    /\ UNCHANGED <<armed, due, now, timestamp, ticks, step, metric, docker_client,
                   listing, before>>

\* lpush of the memory entry (line 100).
ContainerPushMemory ==
    /\ pc["container"] = "push"
    /\ metric = "memory_history"
    /\ LET key == ContainerKey(CurrentContainer, "memory_history")
           entry == <<timestamp["container"], mem_percent(stats)>>
       IN  /\ store' = [store EXCEPT ![key] = LPUSH(@, entry)]
           /\ RecordAppend(key, entry)
    /\ pc' = [pc EXCEPT !["container"] = "trim"]
    /\ UNCHANGED <<armed, due, now, timestamp, ticks, step, metric, docker_client,
                   listing, stats, failed, before>>

\* ltrim(key, 0, CONTAINER_METRICS_HISTORY_LENGTH - 1) (lines 98 and 101);
\* after the memory list the loop moves to the next container.
ContainerTrim ==
    /\ pc["container"] = "trim"
    /\ LET key == ContainerKey(CurrentContainer, metric)
       IN  store' = [store EXCEPT ![key] = LTRIM(@, 0, TrimStop(CONTAINER_METRICS_HISTORY_LENGTH))]
    /\ IF metric = "cpu_history"
       THEN /\ metric' = "memory_history"
            /\ pc' = [pc EXCEPT !["container"] = "push"]
            /\ UNCHANGED step
       ELSE /\ metric' = "cpu_history"
            /\ IF step["container"] < Len(listing)
               THEN /\ step' = [step EXCEPT !["container"] = @ + 1]
                    /\ pc' = [pc EXCEPT !["container"] = "push"]
               ELSE /\ pc' = [pc EXCEPT !["container"] = "finally"]
                    /\ UNCHANGED step
    /\ UNCHANGED <<armed, due, now, timestamp, ticks, docker_client,
                   listing, stats, failed, before, expected, nappended>>

\* finally: threading.Timer(10, collect_container_metrics).start()
ContainerFinally ==
    /\ pc["container"] = "finally"
    /\ ArmTimer("container", TIMER_INTERVAL)
    /\ pc' = [pc EXCEPT !["container"] = "idle"]
    /\ UNCHANGED <<store, now, timestamp, ticks, step, metric, docker_client,
                   listing, stats, failed, before, expected, nappended>>

ContainerNext(env) ==
    \/ ContainerFire(env)
    \/ ContainerListFails(env)
    \/ ContainerNoClient
    \/ ContainerStatsFails
    \/ ContainerStatsPush(env)
    \/ ContainerPushMemory
    \/ ContainerTrim
    \/ ContainerFinally

\* ------------------------------------------------------------ environments
\* The spec's scenario: cpu_delta = 50, system_delta = 100, two CPUs.
ScenarioStats ==
    [missing |-> {}, total_usage |-> 150, pre_total_usage |-> 100,
     system_cpu_usage |-> 1000, pre_system_cpu_usage |-> 900, online_cpus |-> 2,
     usage |-> 50, limit |-> 200]

StatsInputs ==
    { ScenarioStats,
      \* system_delta = 0 and limit = 0
      [ScenarioStats EXCEPT !.pre_system_cpu_usage = 1000, !.limit = 0],
      \* no precpu_stats key, no limit key
      [ScenarioStats EXCEPT !.missing = {"precpu_stats", "precpu_stats.cpu_usage.total_usage",
                                        "precpu_stats.system_cpu_usage", "memory_stats.limit"}],
      \* no memory_stats key, an idle container
      [ScenarioStats EXCEPT !.missing = {"memory_stats", "memory_stats.usage", "memory_stats.limit"},
                            !.total_usage = 100],
      \* first observation: precpu_stats carries no system_cpu_usage
      [ScenarioStats EXCEPT !.missing = {"precpu_stats.system_cpu_usage"},
                            !.pre_total_usage = 0, !.pre_system_cpu_usage = 0] }

RECURSIVE Orderings(_)
\* Every order in which a set of containers can be listed.
Orderings(S) ==
    IF S = {} THEN {<<>>}
    ELSE UNION {{<<c>> \o rest : rest \in Orderings(S \ {c})} : c \in S}

AllListings == UNION {Orderings(S) : S \in SUBSET Containers}

\* What the host collector can meet: a late timer, and any of the four
\* psutil readings raising.
HostEnv ==
    [late |-> 0..MaxJitter, cpu |-> {<<75>>}, hostFail |-> 1..Len(HostMetricOrder),
     listings |-> {<<>>}, stats |-> {ScenarioStats}]

\* What the container collector can meet: any listing in any order and any
\* of the stats snapshots.
ContainerEnv ==
    [late |-> {0}, cpu |-> {<<75>>}, hostFail |-> {},
     listings |-> AllListings, stats |-> StatsInputs]

\* The environment of the two collectors run in parallel: timers on time,
\* the first psutil reading may raise, one container listed.
NarrowEnv ==
    [late |-> {0}, cpu |-> {<<75>>}, hostFail |-> {1},
     listings |-> {<<"c1">>}, stats |-> {ScenarioStats}]

\* --------------------------------------------------------------- start-up
\* Module level: docker.from_env() has succeeded or not; both timers are
\* started with a delay of one second (app.debug is False at import, so the
\* guard of line 113 passes); Redis holds no history.
Init ==
    /\ store = [k \in Keys |-> <<>>]
    /\ pc = [c \in Collectors |-> "idle"]
    /\ armed = [c \in Collectors |-> 1]
    /\ due = [c \in Collectors |-> STARTUP_DELAY * UnitsPerSecond]
    /\ now = [c \in Collectors |-> 0]
    /\ timestamp = [c \in Collectors |-> 0]
    /\ ticks = [c \in Collectors |-> 0]
    /\ step = [c \in Collectors |-> 1]
    /\ metric = "cpu_history"
    /\ docker_client \in BOOLEAN
    /\ listing = <<>>
    /\ stats = NoStats
    /\ failed = [c \in Collectors |-> "none"]
    /\ before = [k \in Keys |-> <<>>]
    /\ expected = [k \in Keys |-> <<>>]
    /\ nappended = [k \in Keys |-> 0]

HostOnlyNext == HostNext(HostEnv)

ContainerOnlyNext == ContainerNext(ContainerEnv)

Next == HostNext(NarrowEnv) \/ ContainerNext(NarrowEnv)

\* The host collector alone.
HostSpec == Init /\ [][HostOnlyNext]_vars

\* The container collector alone.
ContainerSpec == Init /\ [][ContainerOnlyNext]_vars

\* Both collectors in parallel.
Spec == Init /\ [][Next]_vars

\* Both collectors in parallel, each thread scheduled whenever it can take a
\* step and every psutil, Docker and Redis call returning.
FairSpec ==
    /\ Spec
    /\ WF_vars(HostNext(NarrowEnv))
    /\ WF_vars(ContainerNext(NarrowEnv))

\* ------------------------------------------------------------- read side
\* A request is served in whatever state the collectors have left the
\* lists: the operators below are evaluated on every reachable state.

\* entry.decode('utf-8').split(':'), int(timestamp), float(...) / int(...)
ParseEntry(entry) == [timestamp |-> entry[1], values |-> Tail(entry)]

\* for entry in reversed(redis_client.lrange(key, 0, -1)): the samples in
\* the order the loop visits them.
RangeSamples(key) ==
    LET raw == Reversed(LRANGE(store[key], 0, -1))
    IN  [i \in 1..Len(raw) |-> ParseEntry(raw[i])]

\* time.strftime('%H:%M', time.localtime(int(timestamp))): the minute of the
\* day (UTC taken as the local zone).
Label(ts) == (ts \div 60) % 1440

Labels(key) == [i \in 1..Len(RangeSamples(key)) |-> Label(RangeSamples(key)[i].timestamp)]

Data(key, field) == [i \in 1..Len(RangeSamples(key)) |-> RangeSamples(key)[i].values[field]]

\* GET /api/metrics
get_metrics ==
    [cpu_labels |-> Labels(<<"host", "cpu_history">>),
     cpu_data |-> Data(<<"host", "cpu_history">>, 1),
     memory_labels |-> Labels(<<"host", "memory_history">>),
     memory_data |-> Data(<<"host", "memory_history">>, 1),
     disk_labels |-> Labels(<<"host", "disk_history">>),
     disk_data |-> Data(<<"host", "disk_history">>, 1),
     network_labels |-> Labels(<<"host", "network_history">>),
     network_sent_data |-> Data(<<"host", "network_history">>, 1),
     network_recv_data |-> Data(<<"host", "network_history">>, 2)]

\* GET /api/containers/<container_id>/metrics
get_container_metrics(container_id) ==
    [cpu_labels |-> Labels(ContainerKey(container_id, "cpu_history")),
     cpu_data |-> Data(ContainerKey(container_id, "cpu_history"), 1),
     memory_labels |-> Labels(ContainerKey(container_id, "memory_history")),
     memory_data |-> Data(ContainerKey(container_id, "memory_history"), 1)]

\* ---------------------------------------------------------------- claims
SeqRange(s) == {s[i] : i \in 1..Len(s)}

\* The key whose lpush collector c has issued and whose ltrim is still to come.
MidAppend(c, key) ==
    /\ pc[c] = "trim"
    /\ key = IF c = "host" THEN <<"host", HostMetricOrder[step["host"]]>>
             ELSE ContainerKey(CurrentContainer, metric)

AppendComplete(key) == \A c \in Collectors : ~MidAppend(c, key)

OwnKeys(c) == IF c = "host" THEN HostKeys ELSE ContainerKeys

\* C1 (as claimed): in every reachable state, the states between an lpush
\* and its ltrim included, a whole-list lrange of a host series returns at
\* most SYSTEM_METRICS_HISTORY_LENGTH entries and of a container series at
\* most CONTAINER_METRICS_HISTORY_LENGTH.
C1_CapacityInEveryState ==
    \A key \in Keys : Len(LRANGE(store[key], 0, -1)) <= Capacity(key)

\* C2: whenever no append to a key is half done, the samples range returns
\* for it are exactly the last Capacity(key) samples appended to it (all of
\* them while fewer were appended), oldest first.
C2_RangeIsLastNAppended ==
    \A key \in Keys :
        AppendComplete(key) =>
            /\ RangeSamples(key) = [i \in 1..Len(expected[key]) |-> ParseEntry(expected[key][i])]
            /\ Len(RangeSamples(key)) = Min(nappended[key], Capacity(key))

\* C2 witness: more samples were appended to a series than it holds, the
\* last append is complete and the series is full.
C2_Witness ==
    \E key \in Keys :
        /\ nappended[key] > Capacity(key)
        /\ AppendComplete(key)
        /\ Len(RangeSamples(key)) = Capacity(key)

\* C3 (as claimed): when a tick in which a sampling step raised reaches its
\* finally clause, every series of that collector is as it was when the
\* tick began.
C3_FailedTickWritesNothing ==
    \A c \in Collectors :
        (pc[c] = "finally" /\ failed[c] # "none") =>
            \A key \in OwnKeys(c) : store[key] = before[key]

\* C4 (as claimed): when the stats fetch or the transform of a listed
\* container A raised, every other listed container B has, at the end of
\* that tick, a cpu and a memory sample of that tick.
C4_FailureIsIsolated ==
    (pc["container"] = "finally" /\ failed["container"] \in Containers) =>
        \A B \in SeqRange(listing) \ {failed["container"]} :
            \A m \in ContainerMetrics :
                /\ store[ContainerKey(B, m)] # <<>>
                /\ Head(store[ContainerKey(B, m)])[1] = timestamp["container"]
                /\ store[ContainerKey(B, m)] # before[ContainerKey(B, m)]

\* C5: a tick that ends (normally, by an exception, or on the missing
\* client) has started exactly one timer, a running tick has started none,
\* and under fair scheduling each collector goes on ticking: it performs
\* every one of the MaxTicks ticks the model allows and is left with the
\* timer of the next one started.
C5_EveryTickReschedules ==
    /\ [][\A c \in Collectors :
            /\ (pc[c] # "idle" /\ pc'[c] = "idle") => (armed[c] = 0 /\ armed'[c] = 1)
            /\ (pc'[c] # "idle") => armed'[c] = 0]_vars
    /\ \A c \in Collectors : <>[](ticks[c] = MaxTicks /\ pc[c] = "idle" /\ armed[c] = 1)

\* C5 witness: without a client, the container collector has ticked more
\* than once and a host tick that failed has ended with its timer started.
C5_Witness ==
    /\ ~docker_client
    /\ ticks["container"] >= 2
    /\ pc["container"] = "idle"
    /\ armed["container"] = 1
    /\ ticks["host"] >= 2
    /\ failed["host"] # "none"
    /\ pc["host"] = "idle"
    /\ armed["host"] = 1

\* The containers some series of which differs from its value at tick start.
WrittenInTick ==
    {w \in Containers : \E m \in ContainerMetrics :
        store[ContainerKey(w, m)] # before[ContainerKey(w, m)]}

\* No series of a container absent from the current listing has changed
\* since the tick that obtained the listing began.
AbsentUnchanged ==
    \A w \in Containers \ SeqRange(listing) :
        \A m \in ContainerMetrics : store[<<w, m>>] = before[<<w, m>>]

CpuEntryPushed ==
    /\ pc["container"] = "trim" \/ (pc["container"] = "push" /\ metric = "memory_history")
    /\ stats # NoStats

\* C8 (as claimed): every container cpu percentage stored lies in [0, 100]
\* (0 .. 10000 hundredths), and the one just pushed is 0 when
\* system_delta <= 0.
C8_CpuPercentInRange ==
    /\ \A c \in Containers :
        \A i \in 1..Len(RangeSamples(ContainerKey(c, "cpu_history"))) :
            LET percent == RangeSamples(ContainerKey(c, "cpu_history"))[i].values[1]
            IN  0 <= percent /\ percent <= 10000
    /\ (CpuEntryPushed /\ system_delta(stats) <= 0) =>
            Head(store[ContainerKey(CurrentContainer, "cpu_history")])[2] = 0

\* C9 (as claimed): when system_delta > 0 the cpu percentage pushed is
\* (cpu_delta / system_delta) * online_cpus * 100, to two decimals.
C9_CpuPercentUsesCpuCount ==
    (CpuEntryPushed /\ HasCpuPair(stats) /\ system_delta(stats) > 0) =>
        Head(store[ContainerKey(CurrentContainer, "cpu_history")])[2]
            = Format2f(cpu_delta(stats) * stats.online_cpus * 100, system_delta(stats))

\* No previous CPU snapshot, or a system-time delta of zero.
CpuBaselineUnavailable(s) ==
    \/ ~Has(s, "precpu_stats")
    \/ ~Has(s, "precpu_stats.cpu_usage.total_usage")
    \/ ~Has(s, "precpu_stats.system_cpu_usage")
    \/ system_delta(s) = 0

\* No memory limit, or a limit of zero.
MemoryLimitUnavailable(s) ==
    \/ ~Has(s, "memory_stats")
    \/ ~Has(s, "memory_stats.limit")
    \/ s.limit = 0

\* C10 (as claimed): once the stats of a container are fetched, a missing
\* or zero CPU baseline does not fail the tick and its cpu entry is pushed
\* with value 0; a missing or zero memory limit gives a memory entry 0.
C10_ZeroDenominatorWritesZero ==
    /\ (stats # NoStats /\ CpuBaselineUnavailable(stats)
            /\ ~(pc["container"] = "push" /\ metric = "cpu_history")) =>
        /\ failed["container"] = "none"
        /\ store[ContainerKey(CurrentContainer, "cpu_history")] # <<>>
        /\ Head(store[ContainerKey(CurrentContainer, "cpu_history")]) = <<timestamp["container"], 0>>
    /\ (stats # NoStats /\ MemoryLimitUnavailable(stats)
            /\ pc["container"] = "trim" /\ metric = "memory_history") =>
        Head(store[ContainerKey(CurrentContainer, "memory_history")]) = <<timestamp["container"], 0>>

\* ------------------------------------------------------- a fetch that hangs
\* container.stats(stream=False) never returns for the container being
\* visited: the call carries no timeout of its own (line 76), and the thread
\* of the tick stays inside it.  No action leaves pc = "hung".
ContainerStatsHangs ==
    /\ pc["container"] = "push"
    /\ metric = "cpu_history"
    /\ pc' = [pc EXCEPT !["container"] = "hung"]
    /\ UNCHANGED <<store, armed, due, now, timestamp, ticks, step, metric, docker_client,
                   listing, stats, failed, before, expected, nappended>>

\* Two containers are live and listed, in either order.
HangEnv ==
    [late |-> {0}, cpu |-> {<<75>>}, hostFail |-> {1},
     listings |-> {<<"c1", "c2">>, <<"c2", "c1">>}, stats |-> {ScenarioStats}]

HangNext == HostNext(HangEnv) \/ ContainerNext(HangEnv) \/ ContainerStatsHangs

\* Both collectors in parallel, each thread scheduled whenever it can take a
\* step; a stats fetch may hang.
HangSpec ==
    /\ Init
    /\ [][HangNext]_vars
    /\ WF_vars(HostNext(HangEnv))
    /\ WF_vars(ContainerNext(HangEnv) \/ ContainerStatsHangs)

\* A tick of collector c is running or can still start.
CanStillTick(c) == pc[c] \notin {"idle", "hung"} \/ armed[c] >= 1

\* C11 (as claimed): while a stats fetch hangs, the host collector still
\* has a tick running or a timer started, and so has the container
\* collector, so that later ticks sample the other listed containers.
C11_HungFetchStarvesNoOne ==
    pc["container"] = "hung" =>
        /\ CanStillTick("host")
        /\ CanStillTick("container")

\* The ticks of collector c that are running (0 or 1).
Running(c) == IF pc[c] = "idle" THEN 0 ELSE 1

====
